---- MODULE Spec2Model ----
(***************************************************************************)
(* Model of the PBR render routine of rend3-pbr (src/rend3-pbr/src/lib.rs) *)
(* PbrRenderRoutine::new / set_background_texture / resize / render and    *)
(* PrimaryPasses::new, together with the reader/writer locks of the        *)
(* renderer's managers that render() and PrimaryPasses::new take.          *)
(***************************************************************************)
EXTENDS Integers, Sequences, FiniteSets, TLC

\* ------------------------------------------------------------------ bounds
MaxFrames == 2      \* render() calls made on one routine instance
MaxBuilds == 3      \* PrimaryPasses built by one routine instance
MaxLights == 1      \* directional lights held by the light manager
MaxInitial == 1     \* command buffers already in the caller's output list

\* ------------------------------------------------------------ value domains
None == "None"
Routines == {"r1", "r2"}
ReaderThread == "reader"
Modes == {"CPU", "GPU"}
SampleCounts == {1, 4}                 \* SampleCount::One, SampleCount::Four
Resolutions == {"res_a", "res_b"}
TextureHandles == {"sky_a"}
RenderTextureOptions == [resolution : Resolutions, samples : SampleCounts]

Managers ==
    << "mesh_manager", "object_manager", "directional_light_manager",
       "material_manager", "d2_texture_manager", "d2c_texture_manager" >>
ManagerSet == {Managers[k] : k \in 1..Len(Managers)}
Locks == ManagerSet \cup {"profiler", "global_resources"}

VARIABLES
    mode,             \* renderer.mode
    lights,           \* number of directional lights in the light manager
    writer,           \* lock -> thread holding it exclusively, or None
    readers,          \* lock -> set of threads holding it shared
    gpu_culler,       \* routine -> tag of the ModeData<(), GpuCuller> field
    skybox_texture,   \* routine -> Option<TextureHandle>
    render_textures,  \* routine -> RenderTextures
    primary_passes,   \* routine -> PrimaryPasses
    builds,           \* routine -> number of PrimaryPasses built so far
    pc,               \* routine -> position of its thread
    idx,              \* routine -> position inside a run of like calls
    options,          \* routine -> argument of the resize() in progress
    encoder,          \* routine -> commands recorded on the frame's encoder
    trace,            \* routine -> calls made by the render() in progress / last finished
    culler,           \* routine -> culler reference selected for the frame
    culled_lights,    \* routine -> result of cull_shadows
    culled_objects,   \* routine -> results of the three ForwardPass::cull calls
    encoders,         \* routine -> the caller's Vec<CommandBuffer>
    initial,          \* routine -> length of encoders before the first render()
    frames,           \* routine -> number of render() calls that returned
    last,             \* routine -> the latest call made on it, for stating the claims
    reader            \* the concurrent reader thread: [st, lock]

lockVars == << writer, readers >>
envVars == << mode, lights >>
routineVars == << gpu_culler, skybox_texture, render_textures, primary_passes, builds >>
frameVars == << encoder, trace, culler, culled_lights, culled_objects >>
outVars == << encoders, initial, frames, last >>
NoTextures ==
    [resolution |-> None, samples |-> 0, color |-> FALSE, depth |-> FALSE, resolve |-> FALSE]
NoCall ==
    [op |-> "new", repeated |-> FALSE, rebuilt |-> FALSE, builds |-> 0,
     before |-> NoTextures]
vars == << mode, lights, writer, readers, gpu_culler, skybox_texture, render_textures,
           primary_passes, builds, pc, idx, options, encoder, trace, culler,
           culled_lights, culled_objects, encoders, initial, frames, last, reader >>

\* ------------------------------------------------------------ pipelines
NoPipeline == [owner |-> None, build |-> 0, kind |-> None, variant |-> None, samples |-> 0]

Pipeline(r, g, kind, variant, samples) ==
    [owner |-> r, build |-> g, kind |-> kind, variant |-> variant, samples |-> samples]

\* common::depth_pass::build_depth_pass_shader: one pipeline per shadow-casting class
build_depth_pass_shader(r, g, samples, ty) ==
    [opaque |-> Pipeline(r, g, ty, "Opaque", samples),
     cutout |-> Pipeline(r, g, ty, "Cutout", samples)]

build_skybox_shader(r, g, samples) == Pipeline(r, g, "Skybox", None, samples)

build_forward_pass_shader(r, g, samples, transparency) ==
    Pipeline(r, g, "Forward", transparency, samples)

ForwardPassNew(prepass_pipeline, forward_pipeline, transparency) ==
    [prepass_pipeline |-> prepass_pipeline,
     forward_pipeline |-> forward_pipeline,
     transparency |-> transparency]

DirectionalShadowPassNew(cutout_pipeline, opaque_pipeline) ==
    [cutout_pipeline |-> cutout_pipeline, opaque_pipeline |-> opaque_pipeline]

SkyboxPassNew(pipeline) == [pipeline |-> pipeline, current_skybox |-> None]

ShadowSamples == 1      \* SampleCount::One

\* the shadow pipelines are built with the sample count of the render textures
PrimaryPassesNewShadowSamples(r, g, samples) ==
    LET shadow_pipelines == build_depth_pass_shader(r, g, samples, "Shadow")
        depth_pipelines == build_depth_pass_shader(r, g, samples, "Prepass")
        skybox_pipeline == build_skybox_shader(r, g, samples)
        opaque_pipeline == build_forward_pass_shader(r, g, samples, "Opaque")
        cutout_pipeline == build_forward_pass_shader(r, g, samples, "Cutout")
        transparent_pipeline == build_forward_pass_shader(r, g, samples, "Blend")
    IN  [shadow_passes |->
             DirectionalShadowPassNew(shadow_pipelines.cutout, shadow_pipelines.opaque),
         skybox_pass |-> SkyboxPassNew(skybox_pipeline),
         transparent_pass |->
             ForwardPassNew(depth_pipelines.opaque, transparent_pipeline, "Blend"),
         cutout_pass |->
             ForwardPassNew(depth_pipelines.cutout, cutout_pipeline, "Cutout"),
         opaque_pass |->
             ForwardPassNew(depth_pipelines.opaque, opaque_pipeline, "Opaque")]

\* the transparent pass is given a prepass pipeline of its own
PrimaryPassesNewOwnPrepass(r, g, samples) ==
    LET shadow_pipelines == build_depth_pass_shader(r, g, ShadowSamples, "Shadow")
        depth_pipelines == build_depth_pass_shader(r, g, samples, "Prepass")
        skybox_pipeline == build_skybox_shader(r, g, samples)
        opaque_pipeline == build_forward_pass_shader(r, g, samples, "Opaque")
        cutout_pipeline == build_forward_pass_shader(r, g, samples, "Cutout")
        transparent_pipeline == build_forward_pass_shader(r, g, samples, "Blend")
    IN  [shadow_passes |->
             DirectionalShadowPassNew(shadow_pipelines.cutout, shadow_pipelines.opaque),
         skybox_pass |-> SkyboxPassNew(skybox_pipeline),
         transparent_pass |->
             ForwardPassNew(Pipeline(r, g, "Prepass", "Blend", samples),
                            transparent_pipeline, "Blend"),
         cutout_pass |->
             ForwardPassNew(depth_pipelines.cutout, cutout_pipeline, "Cutout"),
         opaque_pass |->
             ForwardPassNew(depth_pipelines.opaque, opaque_pipeline, "Opaque")]

PrimaryPassesNew(r, g, samples) ==
    LET shadow_pipelines == build_depth_pass_shader(r, g, ShadowSamples, "Shadow")
        depth_pipelines == build_depth_pass_shader(r, g, samples, "Prepass")
        skybox_pipeline == build_skybox_shader(r, g, samples)
        opaque_pipeline == build_forward_pass_shader(r, g, samples, "Opaque")
        cutout_pipeline == build_forward_pass_shader(r, g, samples, "Cutout")
        transparent_pipeline == build_forward_pass_shader(r, g, samples, "Blend")
    IN  [shadow_passes |->
             DirectionalShadowPassNew(shadow_pipelines.cutout, shadow_pipelines.opaque),
         skybox_pass |-> SkyboxPassNew(skybox_pipeline),
         transparent_pass |->
             ForwardPassNew(depth_pipelines.opaque, transparent_pipeline, "Blend"),
         cutout_pass |->
             ForwardPassNew(depth_pipelines.cutout, cutout_pipeline, "Cutout"),
         opaque_pass |->
             ForwardPassNew(depth_pipelines.opaque, opaque_pipeline, "Opaque")]

\* ------------------------------------------------------------ render targets
RenderTexturesNew(opts) ==
    [resolution |-> opts.resolution,
     samples |-> opts.samples,
     color |-> TRUE,
     depth |-> TRUE,
     resolve |-> opts.samples > 1]

blit_source_view(rt) == IF rt.resolve THEN "resolve" ELSE "color"

\* ------------------------------------------------------------ recorded data
NoCull == [class |-> None, view |-> None, light |-> 0, frame |-> 0, culler |-> None]

\* a culled set: what was culled (class, view), by which culler, in which frame
CulledSet(class, view, light, frame, by) ==
    [class |-> class, view |-> view, light |-> light, frame |-> frame, culler |-> by]

NoCmd ==
    [op |-> None, pass |-> None, culler |-> None, pipeline |-> NoPipeline,
     culled |-> NoCull, target |-> None, source |-> None, skybox |-> None,
     samples |-> 0]

\* a command buffer some other routine pushed to the caller's list earlier
ForeignBuffer == << [NoCmd EXCEPT !.op = "foreign"] >>

Range(s) == {s[k] : k \in 1..Len(s)}

\* ------------------------------------------------------------ locks
Free(l) == writer[l] = None /\ readers[l] = {}

CanRead(l) == writer[l] = None

\* every guard of a returning render() is dropped
ReleaseAll(t) ==
    /\ writer' = [l \in Locks |-> IF writer[l] = t THEN None ELSE writer[l]]
    /\ readers' = [l \in Locks |-> readers[l] \ {t}]

\* ------------------------------------------------------------ construction
\* ModeData::into_data: exactly one branch is populated
into_data(m) == IF m = "GPU" THEN "Gpu" ELSE "Cpu"

DefaultOptions == [resolution |-> "res_a", samples |-> 1]

\* The routines in active are constructed with either sample count (the resolutions
\* are interchangeable, so one stands for all), over no lights or MaxLights lights,
\* with a caller's list that is empty or holds MaxInitial buffers
InitWith(active) ==
    /\ mode \in Modes
    /\ lights \in {0, MaxLights}
    /\ writer = [l \in Locks |-> None]
    /\ readers = [l \in Locks |-> {}]
    /\ gpu_culler = [r \in Routines |-> into_data(mode)]
    /\ skybox_texture = [r \in Routines |-> None]
    /\ \E o \in [active -> {x \in RenderTextureOptions :
                                 x.resolution = DefaultOptions.resolution}] :
          LET opt(r) == IF r \in active THEN o[r] ELSE DefaultOptions
          IN  /\ render_textures = [r \in Routines |-> RenderTexturesNew(opt(r))]
              /\ primary_passes = [r \in Routines |-> PrimaryPassesNew(r, 1, opt(r).samples)]
              /\ options = [r \in Routines |-> opt(r)]
    /\ builds = [r \in Routines |-> 1]
    /\ pc = [r \in Routines |-> "idle"]
    /\ idx = [r \in Routines |-> 1]
    /\ encoder = [r \in Routines |-> << >>]
    /\ trace = [r \in Routines |-> << >>]
    /\ culler = [r \in Routines |-> None]
    /\ culled_lights = [r \in Routines |-> << >>]
    /\ culled_objects = [r \in Routines |-> [v \in {} |-> NoCull]]
    /\ \E k \in [active -> {0, MaxInitial}] :
          LET len(r) == IF r \in active THEN k[r] ELSE 0
          IN  /\ initial = [r \in Routines |-> len(r)]
              /\ encoders = [r \in Routines |-> [j \in 1..len(r) |-> ForeignBuffer]]
    /\ frames = [r \in Routines |-> 0]
    /\ last = [r \in Routines |-> NoCall]
    /\ reader = [st |-> "idle", lock |-> None]

Init == InitWith({"r1"})

\* ------------------------------------------------------------ set_background_texture
SetBackgroundTexture(r, handle) ==
    /\ pc[r] = "idle"
    /\ skybox_texture' = [skybox_texture EXCEPT ![r] = handle]
    /\ last' = [last EXCEPT ![r] = [NoCall EXCEPT !.op = "set_background_texture"]]
    /\ UNCHANGED << envVars, lockVars, gpu_culler, render_textures, primary_passes,
                    builds, pc, idx, options, frameVars, encoders, initial, frames,
                    reader >>

\* ------------------------------------------------------------ render
\* the guards render() takes on entry, in declaration order
RenderLockOrder ==
    << "profiler", "mesh_manager", "object_manager", "directional_light_manager",
       "material_manager", "d2_texture_manager", "d2c_texture_manager" >>

\* the managers are made ready in the order their guards were taken
ReadyOrderAsLocked ==
    << "mesh_manager", "object_manager", "directional_light_manager",
       "material_manager", "d2_texture_manager", "d2c_texture_manager" >>

\* "Do these in dependency order"
ReadyOrder ==
    << "object_manager", "material_manager", "d2_texture_manager",
       "d2c_texture_manager", "directional_light_manager", "mesh_manager" >>

\* the culls are issued in the order of the forward draws
CullCallsInDrawOrder ==
    << [pass |-> "opaque_pass", result |-> "opaque_culled_objects"],
       [pass |-> "cutout_pass", result |-> "cutout_culled_objects"],
       [pass |-> "transparent_pass", result |-> "transparent_culled_objects"] >>

\* the three ForwardPass::cull calls: the pass called and the local that takes the result
CullCalls ==
    << [pass |-> "transparent_pass", result |-> "transparent_culled_objects"],
       [pass |-> "cutout_pass", result |-> "cutout_culled_objects"],
       [pass |-> "opaque_pass", result |-> "opaque_culled_objects"] >>

PrepassCallsEveryPass ==
    << [pass |-> "opaque_pass", culled_objects |-> "opaque_culled_objects"],
       [pass |-> "cutout_pass", culled_objects |-> "cutout_culled_objects"],
       [pass |-> "transparent_pass", culled_objects |-> "transparent_culled_objects"] >>

\* the ForwardPass::prepass calls: the pass called and the culled set handed to it
PrepassCalls ==
    << [pass |-> "opaque_pass", culled_objects |-> "opaque_culled_objects"],
       [pass |-> "cutout_pass", culled_objects |-> "cutout_culled_objects"] >>

DrawCallsInCullOrder ==
    << [pass |-> "transparent_pass", culled_objects |-> "transparent_culled_objects"],
       [pass |-> "cutout_pass", culled_objects |-> "cutout_culled_objects"],
       [pass |-> "opaque_pass", culled_objects |-> "opaque_culled_objects"] >>

\* the ForwardPass::draw calls
DrawCalls ==
    << [pass |-> "opaque_pass", culled_objects |-> "opaque_culled_objects"],
       [pass |-> "cutout_pass", culled_objects |-> "cutout_culled_objects"],
       [pass |-> "transparent_pass", culled_objects |-> "transparent_culled_objects"] >>

Record(r, cmd) == encoder' = [encoder EXCEPT ![r] = Append(@, cmd)]
Records(r, cmds) == encoder' = [encoder EXCEPT ![r] = @ \o cmds]
Call(r, name, arg) ==
    trace' = [trace EXCEPT ![r] = Append(@, [call |-> name, arg |-> arg])]
Goto(r, label) == pc' = [pc EXCEPT ![r] = label]

\* advance inside a run of n like calls, leaving it for label after the last
Advance(r, n, label) ==
    IF idx[r] < n
    THEN /\ idx' = [idx EXCEPT ![r] = @ + 1]
         /\ UNCHANGED pc
    ELSE /\ idx' = [idx EXCEPT ![r] = 1]
         /\ Goto(r, label)

\* render() is entered: the frame's command encoder is created
RenderBegin(r) ==
    /\ pc[r] = "idle"
    /\ frames[r] < MaxFrames
    /\ encoder' = [encoder EXCEPT ![r] = << >>]
    /\ trace' = [trace EXCEPT ![r] = << >>]
    /\ Goto(r, "lock")
    /\ idx' = [idx EXCEPT ![r] = 1]
    /\ last' = [last EXCEPT ![r] = [NoCall EXCEPT !.op = "render"]]
    /\ UNCHANGED << envVars, lockVars, routineVars, options, culler, culled_lights,
                    culled_objects, encoders, initial, frames, reader >>

\* the guards are taken without waiting for the holders of the locks
RenderLockNoWait(r) ==
    /\ pc[r] = "lock"
    /\ writer' = [writer EXCEPT ![RenderLockOrder[idx[r]]] = r]
    /\ Advance(r, Len(RenderLockOrder), "ready")
    /\ UNCHANGED << envVars, readers, routineVars, options, frameVars, outVars, reader >>

\* renderer.profiler.lock() and the six manager.write() calls, one per step
RenderLock(r) ==
    /\ pc[r] = "lock"
    /\ LET l == RenderLockOrder[idx[r]]
       IN  /\ Free(l)
           /\ writer' = [writer EXCEPT ![l] = r]
    /\ Advance(r, Len(RenderLockOrder), "ready")
    /\ UNCHANGED << envVars, readers, routineVars, options, frameVars, outVars, reader >>

\* each write guard is dropped as soon as its manager is ready
ReadyThenRelease(r) ==
    /\ pc[r] = "ready"
    /\ writer[ReadyOrder[idx[r]]] = r
    /\ writer' = [writer EXCEPT ![ReadyOrder[idx[r]]] = None]
    /\ Call(r, "ready", ReadyOrder[idx[r]])
    /\ Advance(r, Len(ReadyOrder), "update_skybox")
    /\ UNCHANGED << envVars, readers, routineVars, options, encoder, culler,
                    culled_lights, culled_objects, outVars, reader >>

\* the ready() calls on the write guards
Ready(r) ==
    /\ pc[r] = "ready"
    /\ writer[ReadyOrder[idx[r]]] = r
    /\ Call(r, "ready", ReadyOrder[idx[r]])
    /\ Advance(r, Len(ReadyOrder), "update_skybox")
    /\ UNCHANGED << envVars, lockVars, routineVars, options, encoder, culler,
                    culled_lights, culled_objects, outVars, reader >>

\* the skybox is set on the first frame only
UpdateSkyboxOnce(r) ==
    /\ pc[r] = "update_skybox"
    /\ primary_passes' =
          [primary_passes EXCEPT ![r].skybox_pass.current_skybox =
              IF @ = None THEN skybox_texture[r] ELSE @]
    /\ Call(r, "update_skybox", None)
    /\ Goto(r, "select_culler")
    /\ UNCHANGED << envVars, lockVars, gpu_culler, skybox_texture, render_textures,
                    builds, idx, options, encoder, culler, culled_lights,
                    culled_objects, outVars, reader >>

\* skybox_pass.update_skybox(new_skybox_handle: self.skybox_texture.clone())
UpdateSkybox(r) ==
    /\ pc[r] = "update_skybox"
    /\ primary_passes' =
          [primary_passes EXCEPT ![r].skybox_pass.current_skybox = skybox_texture[r]]
    /\ Call(r, "update_skybox", None)
    /\ Goto(r, "select_culler")
    /\ UNCHANGED << envVars, lockVars, gpu_culler, skybox_texture, render_textures,
                    builds, idx, options, encoder, culler, culled_lights,
                    culled_objects, outVars, reader >>

\* the global resources are acquired next, without the shadow cull
SelectCullerThenCamera(r) ==
    /\ pc[r] = "select_culler"
    /\ culler' = [culler EXCEPT ![r] = IF gpu_culler[r] = "Gpu" THEN "gpu_culler"
                                                               ELSE "cpu_culler"]
    /\ Goto(r, "global_resources")
    /\ UNCHANGED << envVars, lockVars, routineVars, idx, options, encoder, trace,
                    culled_lights, culled_objects, outVars, reader >>

\* the host culler is taken whatever the mode
SelectCullerCpu(r) ==
    /\ pc[r] = "select_culler"
    /\ culler' = [culler EXCEPT ![r] = "cpu_culler"]
    /\ Goto(r, "cull_shadows")
    /\ UNCHANGED << envVars, lockVars, routineVars, idx, options, encoder, trace,
                    culled_lights, culled_objects, outVars, reader >>

\* let culler = self.gpu_culler.as_ref().map_cpu(|_| &self.cpu_culler)
SelectCuller(r) ==
    /\ pc[r] = "select_culler"
    /\ culler' = [culler EXCEPT ![r] = IF gpu_culler[r] = "Gpu" THEN "gpu_culler"
                                                               ELSE "cpu_culler"]
    /\ Goto(r, "cull_shadows")
    /\ UNCHANGED << envVars, lockVars, routineVars, idx, options, encoder, trace,
                    culled_lights, culled_objects, outVars, reader >>

ShadowCull(r, l) ==
    CulledSet("Shadow", "light", l, frames[r] + 1, culler[r])

\* shadow_passes.cull_shadows: one cull per directional light, on the frame's encoder
CullShadows(r) ==
    /\ pc[r] = "cull_shadows"
    /\ LET sets == [l \in 1..lights |-> ShadowCull(r, l)]
       IN  /\ culled_lights' = [culled_lights EXCEPT ![r] = sets]
           /\ Records(r, [l \in 1..lights |->
                  [NoCmd EXCEPT !.op = "cull", !.pass = "shadow_passes",
                                !.culler = culler[r], !.culled = sets[l]]])
    /\ Call(r, "cull_shadows", None)
    /\ Goto(r, "global_resources")
    /\ UNCHANGED << envVars, lockVars, routineVars, idx, options, culler,
                    culled_objects, outVars, reader >>

\* let global_resources = renderer.global_resources.read()
ReadGlobalResources(r) ==
    /\ pc[r] = "global_resources"
    /\ CanRead("global_resources")
    /\ readers' = [readers EXCEPT !["global_resources"] = @ \cup {r}]
    /\ Call(r, "global_resources.read", None)
    /\ Goto(r, "cull")
    /\ UNCHANGED << envVars, writer, routineVars, idx, options, encoder, culler,
                    culled_lights, culled_objects, outVars, reader >>

\* the culls are recorded on an encoder of their own
CullPrimaryOtherEncoder(r) ==
    /\ pc[r] = "cull"
    /\ LET c == CullCalls[idx[r]]
           set == CulledSet(primary_passes[r][c.pass].transparency, "camera", 0,
                            frames[r] + 1, culler[r])
       IN  /\ culled_objects' =
                 [culled_objects EXCEPT ![r] = (c.result :> set) @@ @]
           /\ Call(r, "cull", c.pass)
    /\ Advance(r, Len(CullCalls), "draw_shadows")
    /\ UNCHANGED << envVars, lockVars, routineVars, options, encoder, culler,
                    culled_lights, outVars, reader >>

\* ForwardPass::cull of the pass named by the idx-th call
CullPrimary(r) ==
    /\ pc[r] = "cull"
    /\ LET c == CullCalls[idx[r]]
           set == CulledSet(primary_passes[r][c.pass].transparency, "camera", 0,
                            frames[r] + 1, culler[r])
       IN  /\ culled_objects' =
                 [culled_objects EXCEPT ![r] = (c.result :> set) @@ @]
           /\ Record(r, [NoCmd EXCEPT !.op = "cull", !.pass = c.pass,
                                      !.culler = culler[r], !.culled = set])
           /\ Call(r, "cull", c.pass)
    /\ Advance(r, Len(CullCalls), "draw_shadows")
    /\ UNCHANGED << envVars, lockVars, routineVars, options, culler, culled_lights,
                    outVars, reader >>

\* shadow_passes.draw_culled_shadows: depth-only draws of every culled light
DrawCulledShadows(r) ==
    /\ pc[r] = "draw_shadows"
    /\ LET n == Len(culled_lights[r])
           sp == primary_passes[r].shadow_passes
       IN  Records(r, [k \in 1..(2 * n) |->
               [NoCmd EXCEPT !.op = "draw_shadow", !.pass = "shadow_passes",
                             !.pipeline = IF k % 2 = 1 THEN sp.opaque_pipeline
                                                       ELSE sp.cutout_pipeline,
                             !.culled = culled_lights[r][(k + 1) \div 2],
                             !.target = "shadow_map"]])
    /\ Call(r, "draw_culled_shadows", None)
    /\ Goto(r, "begin_rpass")
    /\ UNCHANGED << envVars, lockVars, routineVars, idx, options, culler,
                    culled_lights, culled_objects, outVars, reader >>

\* create_shader_uniform, then encoder.begin_render_pass on the render textures
BeginRenderPass(r) ==
    /\ pc[r] = "begin_rpass"
    /\ Record(r, [NoCmd EXCEPT !.op = "begin_rpass", !.target = "color",
                               !.samples = render_textures[r].samples])
    /\ Call(r, "begin_render_pass", None)
    /\ Goto(r, "prepass")
    /\ UNCHANGED << envVars, lockVars, routineVars, idx, options, culler,
                    culled_lights, culled_objects, outVars, reader >>

\* ForwardPass::prepass of the pass named by the idx-th call
Prepass(r) ==
    /\ pc[r] = "prepass"
    /\ LET c == PrepassCalls[idx[r]]
       IN  /\ Record(r, [NoCmd EXCEPT !.op = "prepass", !.pass = c.pass,
                             !.pipeline = primary_passes[r][c.pass].prepass_pipeline,
                             !.culled = culled_objects[r][c.culled_objects],
                             !.target = "color"])
           /\ Call(r, "prepass", c.pass)
    /\ Advance(r, Len(PrepassCalls), "draw_skybox")
    /\ UNCHANGED << envVars, lockVars, routineVars, options, culler, culled_lights,
                    culled_objects, outVars, reader >>

\* SkyboxPass::draw_skybox: draws only when a skybox is current
DrawSkybox(r) ==
    /\ pc[r] = "draw_skybox"
    /\ LET sky == primary_passes[r].skybox_pass
       IN  IF sky.current_skybox # None
           THEN Record(r, [NoCmd EXCEPT !.op = "draw_skybox", !.pass = "skybox_pass",
                                        !.pipeline = sky.pipeline,
                                        !.skybox = sky.current_skybox,
                                        !.target = "color"])
           ELSE UNCHANGED encoder
    /\ Call(r, "draw_skybox", None)
    /\ Goto(r, "draw")
    /\ UNCHANGED << envVars, lockVars, routineVars, idx, options, culler,
                    culled_lights, culled_objects, outVars, reader >>

\* every forward draw is recorded in a render pass of its own
DrawInOwnPass(r) ==
    /\ pc[r] = "draw"
    /\ LET c == DrawCalls[idx[r]]
       IN  /\ Records(r, << [NoCmd EXCEPT !.op = "end_rpass", !.target = "color"],
                            [NoCmd EXCEPT !.op = "begin_rpass", !.target = "color",
                                          !.samples = render_textures[r].samples],
                            [NoCmd EXCEPT !.op = "draw", !.pass = c.pass,
                                !.pipeline = primary_passes[r][c.pass].forward_pipeline,
                                !.culled = culled_objects[r][c.culled_objects],
                                !.target = "color"] >>)
           /\ Call(r, "draw", c.pass)
    /\ Advance(r, Len(DrawCalls), "end_rpass")
    /\ UNCHANGED << envVars, lockVars, routineVars, options, culler, culled_lights,
                    culled_objects, outVars, reader >>

\* ForwardPass::draw of the pass named by the idx-th call
Draw(r) ==
    /\ pc[r] = "draw"
    /\ LET c == DrawCalls[idx[r]]
       IN  /\ Record(r, [NoCmd EXCEPT !.op = "draw", !.pass = c.pass,
                             !.pipeline = primary_passes[r][c.pass].forward_pipeline,
                             !.culled = culled_objects[r][c.culled_objects],
                             !.target = "color"])
           /\ Call(r, "draw", c.pass)
    /\ Advance(r, Len(DrawCalls), "end_rpass")
    /\ UNCHANGED << envVars, lockVars, routineVars, options, culler, culled_lights,
                    culled_objects, outVars, reader >>

\* the render pass ends and the frame is finished without the blit
EndRenderPassNoBlit(r) ==
    /\ pc[r] = "end_rpass"
    /\ Record(r, [NoCmd EXCEPT !.op = "end_rpass", !.target = "color"])
    /\ Call(r, "end_render_pass", None)
    /\ Goto(r, "finish")
    /\ UNCHANGED << envVars, lockVars, routineVars, idx, options, culler,
                    culled_lights, culled_objects, outVars, reader >>

\* drop(rpass)
EndRenderPass(r) ==
    /\ pc[r] = "end_rpass"
    /\ Record(r, [NoCmd EXCEPT !.op = "end_rpass", !.target = "color"])
    /\ Call(r, "end_render_pass", None)
    /\ Goto(r, "blit")
    /\ UNCHANGED << envVars, lockVars, routineVars, idx, options, culler,
                    culled_lights, culled_objects, outVars, reader >>

\* the blit is made into the colour attachment of the render textures
TonemapBlitIntoColor(r) ==
    /\ pc[r] = "blit"
    /\ Record(r, [NoCmd EXCEPT !.op = "blit", !.pass = "tonemapping_pass",
                               !.source = blit_source_view(render_textures[r]),
                               !.target = "color"])
    /\ Call(r, "blit", None)
    /\ Goto(r, "finish")
    /\ UNCHANGED << envVars, lockVars, routineVars, idx, options, culler,
                    culled_lights, culled_objects, outVars, reader >>

\* tonemapping_pass.blit from the render textures to the output frame
TonemapBlit(r) ==
    /\ pc[r] = "blit"
    /\ Record(r, [NoCmd EXCEPT !.op = "blit", !.pass = "tonemapping_pass",
                               !.source = blit_source_view(render_textures[r]),
                               !.target = "frame"])
    /\ Call(r, "blit", None)
    /\ Goto(r, "finish")
    /\ UNCHANGED << envVars, lockVars, routineVars, idx, options, culler,
                    culled_lights, culled_objects, outVars, reader >>

\* the culled sets are kept by the routine when render() returns
FinishKeepCulled(r) ==
    /\ pc[r] = "finish"
    /\ encoders' = [encoders EXCEPT ![r] = Append(@, encoder[r])]
    /\ frames' = [frames EXCEPT ![r] = @ + 1]
    /\ encoder' = [encoder EXCEPT ![r] = << >>]
    /\ culler' = [culler EXCEPT ![r] = None]
    /\ Call(r, "push", None)
    /\ ReleaseAll(r)
    /\ Goto(r, "idle")
    /\ UNCHANGED << envVars, routineVars, idx, options, culled_lights, culled_objects,
                    initial, last, reader >>

\* the finished buffer is put at the head of the list
FinishInsertFront(r) ==
    /\ pc[r] = "finish"
    /\ encoders' = [encoders EXCEPT ![r] = << encoder[r] >> \o @]
    /\ frames' = [frames EXCEPT ![r] = @ + 1]
    /\ encoder' = [encoder EXCEPT ![r] = << >>]
    /\ culler' = [culler EXCEPT ![r] = None]
    /\ culled_lights' = [culled_lights EXCEPT ![r] = << >>]
    /\ culled_objects' = [culled_objects EXCEPT ![r] = << >>]
    /\ Call(r, "push", None)
    /\ ReleaseAll(r)
    /\ Goto(r, "idle")
    /\ UNCHANGED << envVars, routineVars, idx, options, initial, last, reader >>

\* encoders.push(encoder.finish()); render() returns and its locals are dropped
Finish(r) ==
    /\ pc[r] = "finish"
    /\ encoders' = [encoders EXCEPT ![r] = Append(@, encoder[r])]
    /\ frames' = [frames EXCEPT ![r] = @ + 1]
    /\ encoder' = [encoder EXCEPT ![r] = << >>]
    /\ culler' = [culler EXCEPT ![r] = None]
    /\ culled_lights' = [culled_lights EXCEPT ![r] = << >>]
    /\ culled_objects' = [culled_objects EXCEPT ![r] = << >>]
    /\ Call(r, "push", None)
    /\ ReleaseAll(r)
    /\ Goto(r, "idle")
    /\ UNCHANGED << envVars, routineVars, idx, options, initial, last, reader >>

\* ------------------------------------------------------------ resize
\* the guards PrimaryPasses::new takes, in order; the texture manager only in GPU mode
PassesLockOrder ==
    IF mode = "GPU"
    THEN << "d2_texture_manager", "material_manager", "directional_light_manager" >>
    ELSE << "material_manager", "directional_light_manager" >>

\* the passes are rebuilt when the resolution changes
ResizeCompareResolution(r, opts) ==
    /\ pc[r] = "idle"
    /\ LET different_sample_count == render_textures[r].resolution # opts.resolution
       IN  /\ different_sample_count => builds[r] < MaxBuilds
           /\ render_textures' = [render_textures EXCEPT ![r] = RenderTexturesNew(opts)]
           /\ options' = [options EXCEPT ![r] = opts]
           /\ IF different_sample_count
              THEN Goto(r, "passes_lock")
              ELSE UNCHANGED pc
           /\ last' = [last EXCEPT ![r] =
                  [op |-> "resize",
                   repeated |-> last[r].op = "resize" /\ options[r] = opts,
                   rebuilt |-> pc'[r] = "passes_lock",
                   builds |-> builds[r],
                   before |-> render_textures[r]]]
    /\ idx' = [idx EXCEPT ![r] = 1]
    /\ UNCHANGED << envVars, lockVars, gpu_culler, skybox_texture, primary_passes,
                    builds, frameVars, encoders, initial, frames, reader >>

\* the passes are rebuilt on every resize
ResizeAlwaysRebuild(r, opts) ==
    /\ pc[r] = "idle"
    /\ LET different_sample_count == TRUE
       IN  /\ different_sample_count => builds[r] < MaxBuilds
           /\ render_textures' = [render_textures EXCEPT ![r] = RenderTexturesNew(opts)]
           /\ options' = [options EXCEPT ![r] = opts]
           /\ IF different_sample_count
              THEN Goto(r, "passes_lock")
              ELSE UNCHANGED pc
           /\ last' = [last EXCEPT ![r] =
                  [op |-> "resize",
                   repeated |-> last[r].op = "resize" /\ options[r] = opts,
                   rebuilt |-> pc'[r] = "passes_lock",
                   builds |-> builds[r],
                   before |-> render_textures[r]]]
    /\ idx' = [idx EXCEPT ![r] = 1]
    /\ UNCHANGED << envVars, lockVars, gpu_culler, skybox_texture, primary_passes,
                    builds, frameVars, encoders, initial, frames, reader >>

\* resize() up to the decision to rebuild the passes
Resize(r, opts) ==
    /\ pc[r] = "idle"
    /\ LET different_sample_count == render_textures[r].samples # opts.samples
       IN  /\ different_sample_count => builds[r] < MaxBuilds
           /\ render_textures' = [render_textures EXCEPT ![r] = RenderTexturesNew(opts)]
           /\ options' = [options EXCEPT ![r] = opts]
           /\ IF different_sample_count
              THEN Goto(r, "passes_lock")
              ELSE UNCHANGED pc
           /\ last' = [last EXCEPT ![r] =
                  [op |-> "resize",
                   repeated |-> last[r].op = "resize" /\ options[r] = opts,
                   rebuilt |-> pc'[r] = "passes_lock",
                   builds |-> builds[r],
                   before |-> render_textures[r]]]
    /\ idx' = [idx EXCEPT ![r] = 1]
    /\ UNCHANGED << envVars, lockVars, gpu_culler, skybox_texture, primary_passes,
                    builds, frameVars, encoders, initial, frames, reader >>

\* PrimaryPasses::new takes its read guards, one per step
PassesLock(r) ==
    /\ pc[r] = "passes_lock"
    /\ LET l == PassesLockOrder[idx[r]]
       IN  /\ CanRead(l)
           /\ readers' = [readers EXCEPT ![l] = @ \cup {r}]
    /\ Advance(r, Len(PassesLockOrder), "passes_build")
    /\ UNCHANGED << envVars, writer, routineVars, options, frameVars, outVars, reader >>

\* the passes are rebuilt with the sample count of the render textures replaced
PassesBuildStaleSamples(r) ==
    /\ pc[r] = "passes_build"
    /\ primary_passes' =
          [primary_passes EXCEPT ![r] =
              PrimaryPassesNew(r, builds[r] + 1, last[r].before.samples)]
    /\ builds' = [builds EXCEPT ![r] = @ + 1]
    /\ ReleaseAll(r)
    /\ Goto(r, "idle")
    /\ UNCHANGED << envVars, gpu_culler, skybox_texture, render_textures, idx, options,
                    frameVars, outVars, reader >>

\* PrimaryPasses::new builds the pipelines and passes; resize() stores them and returns
PassesBuild(r) ==
    /\ pc[r] = "passes_build"
    /\ primary_passes' =
          [primary_passes EXCEPT ![r] = PrimaryPassesNew(r, builds[r] + 1, options[r].samples)]
    /\ builds' = [builds EXCEPT ![r] = @ + 1]
    /\ ReleaseAll(r)
    /\ Goto(r, "idle")
    /\ UNCHANGED << envVars, gpu_culler, skybox_texture, render_textures, idx, options,
                    frameVars, outVars, reader >>

\* ------------------------------------------------------------ a concurrent reader
\* another thread of the application asks for shared access to a manager
ReaderRequest(l) ==
    /\ reader.st = "idle"
    /\ reader' = [st |-> "waiting", lock |-> l]
    /\ UNCHANGED << envVars, lockVars, routineVars, pc, idx, options, frameVars, outVars >>

\* RwLock::read returns once no writer holds the lock
ReaderAcquire ==
    /\ reader.st = "waiting"
    /\ CanRead(reader.lock)
    /\ readers' = [readers EXCEPT ![reader.lock] = @ \cup {ReaderThread}]
    /\ reader' = [reader EXCEPT !.st = "reading"]
    /\ UNCHANGED << envVars, writer, routineVars, pc, idx, options, frameVars, outVars >>

ReaderRelease ==
    /\ reader.st = "reading"
    /\ readers' = [readers EXCEPT ![reader.lock] = @ \ {ReaderThread}]
    /\ reader' = [st |-> "idle", lock |-> None]
    /\ UNCHANGED << envVars, writer, routineVars, pc, idx, options, frameVars, outVars >>

\* ------------------------------------------------------------ specifications
RenderStep(r) ==
    \/ RenderBegin(r)
    \/ RenderLock(r)
    \/ Ready(r)
    \/ UpdateSkybox(r)
    \/ SelectCuller(r)
    \/ CullShadows(r)
    \/ ReadGlobalResources(r)
    \/ CullPrimary(r)
    \/ DrawCulledShadows(r)
    \/ BeginRenderPass(r)
    \/ Prepass(r)
    \/ DrawSkybox(r)
    \/ Draw(r)
    \/ EndRenderPass(r)
    \/ TonemapBlit(r)
    \/ Finish(r)

ResizeStep(r) ==
    \/ \E opts \in RenderTextureOptions : Resize(r, opts)
    \/ PassesLock(r)
    \/ PassesBuild(r)

RoutineStep(r) ==
    \/ RenderStep(r)
    \/ ResizeStep(r)
    \/ \E handle \in TextureHandles \cup {None} : SetBackgroundTexture(r, handle)

\* one routine instance driven by one thread
Next == RoutineStep("r1")

Spec == Init /\ [][Next]_vars

\* the routine and, beside it, another thread reading the managers
NextRW ==
    \/ RenderStep("r1")
    \/ \E l \in ManagerSet : ReaderRequest(l)
    \/ ReaderAcquire
    \/ ReaderRelease

SpecRW == Init /\ [][NextRW]_vars

\* two routine instances on one renderer, each driven by a thread of its own:
\* one renders while the other is resized
NextConc == RenderStep("r1") \/ ResizeStep("r2")

SpecConc == Init /\ [][NextConc]_vars

\* two routine instances on one renderer, each rendering frames on a thread of its own
NextFrames == \E r \in Routines : RenderStep(r)

SpecFrames == Init /\ [][NextFrames]_vars

\* ------------------------------------------------------------ reading the recordings
IsPrefix(a, b) == Len(a) <= Len(b) /\ SubSeq(b, 1, Len(a)) = a

\* the command buffers the routine itself has pushed to the caller's list
Pushed(r) == {encoders[r][j] : j \in (initial[r] + 1)..Len(encoders[r])}

\* every recording of the routine: the finished ones and the one in progress
Recordings(r) == Pushed(r) \cup {encoder[r]}

InRender(r) ==
    pc[r] \notin {"idle", "passes_lock", "passes_build"}

\* the frame stage a call of render() belongs to
StageOf(call) ==
    CASE call \in {"ready", "update_skybox"} -> "ResourceSync"
      [] call = "cull_shadows" -> "CullShadow"
      [] call \in {"global_resources.read", "cull"} -> "CullPrimary"
      [] call = "draw_culled_shadows" -> "DrawShadow"
      [] call \in {"begin_render_pass", "prepass"} -> "DrawPrepass"
      [] call = "draw_skybox" -> "DrawSkybox"
      [] call \in {"draw", "end_render_pass"} -> "DrawForward"
      [] call = "blit" -> "Tonemap"
      [] call = "push" -> "Submit"

FrameStages ==
    << "ResourceSync", "CullShadow", "CullPrimary", "DrawShadow", "DrawPrepass",
       "DrawSkybox", "DrawForward", "Tonemap", "Submit" >>

RECURSIVE Compress(_)
\* a sequence with every run of equal neighbours reduced to one element
Compress(s) ==
    IF Len(s) <= 1
    THEN s
    ELSE LET rest == Compress(Tail(s))
         IN  IF Head(s) = Head(rest) THEN rest ELSE << Head(s) >> \o rest

StagesEntered(r) ==
    Compress([k \in 1..Len(trace[r]) |-> StageOf(trace[r][k].call)])

OpsOf(b, op) == LET Is(c) == c.op = op IN SelectSeq(b, Is)

\* C1: every render() goes through the nine frame stages in the order ResourceSync,
\* CullShadow, CullPrimary, DrawShadow, DrawPrepass, DrawSkybox, DrawForward, Tonemap,
\* Submit: a frame in progress has entered a prefix of them, each once, and a frame
\* that has returned has entered all nine, each exactly once
C1_StageOrder ==
    \A r \in Routines :
        /\ IsPrefix(StagesEntered(r), FrameStages)
        /\ (~InRender(r) /\ trace[r] # << >>) => StagesEntered(r) = FrameStages

C1_Witness ==
    /\ pc["r1"] = "idle"
    /\ frames["r1"] >= 2
    /\ StagesEntered("r1") = FrameStages
    /\ skybox_texture["r1"] = None

\* C2: a step changes the caller's list only by appending, it appends exactly when a
\* render() returns, and then exactly one buffer: the entries already there keep their
\* values and positions, and the length grows by the number of render() calls returned
C2_AppendsOne ==
    [][\A r \in Routines :
          /\ SubSeq(encoders'[r], 1, Len(encoders[r])) = encoders[r]
          /\ Len(encoders'[r]) = Len(encoders[r]) + (frames'[r] - frames[r])
          /\ (pc[r] = "finish" /\ pc'[r] = "idle") => frames'[r] = frames[r] + 1]_vars

C2_Witness ==
    /\ initial["r1"] >= 1
    /\ frames["r1"] >= 2
    /\ Len(encoders["r1"]) = initial["r1"] + frames["r1"]
    /\ encoders["r1"][1] = ForeignBuffer

ForwardClasses(b) ==
    LET d == OpsOf(b, "draw") IN [k \in 1..Len(d) |-> d[k].pipeline.variant]

\* C3: in every recording the forward draws come in the order Opaque, Cutout, Blend;
\* a finished recording holds all three
C3_ForwardOrder ==
    \A r \in Routines :
        /\ \A b \in Recordings(r) :
              IsPrefix(ForwardClasses(b), << "Opaque", "Cutout", "Blend" >>)
        /\ \A b \in Pushed(r) :
              ForwardClasses(b) = << "Opaque", "Cutout", "Blend" >>

C3_Witness ==
    /\ pc["r1"] = "finish"
    /\ ForwardClasses(encoder["r1"]) = << "Opaque", "Cutout", "Blend" >>

\* C4: a prepass is recorded only by the opaque and the cutout pass and only over the
\* Opaque and the Cutout culled set; the transparent pass records no prepass and the
\* Blend culled set reaches no prepass
C4_NoBlendPrepass ==
    \A r \in Routines : \A b \in Recordings(r) : \A k \in 1..Len(b) :
        b[k].op = "prepass" =>
            /\ b[k].pass \in {"opaque_pass", "cutout_pass"}
            /\ b[k].culled.class \in {"Opaque", "Cutout"}
            /\ b[k].pipeline.kind = "Prepass"

C4_Witness ==
    /\ pc["r1"] = "finish"
    /\ Len(OpsOf(encoder["r1"], "prepass")) = 2
    /\ \E k \in 1..Len(encoder["r1"]) :
          encoder["r1"][k].op = "cull" /\ encoder["r1"][k].culled.class = "Blend"

\* the pipeline objects a pass set holds
PipelinesOf(pp) ==
    { pp.shadow_passes.cutout_pipeline, pp.shadow_passes.opaque_pipeline,
      pp.skybox_pass.pipeline,
      pp.opaque_pass.prepass_pipeline, pp.opaque_pass.forward_pipeline,
      pp.cutout_pass.prepass_pipeline, pp.cutout_pass.forward_pipeline,
      pp.transparent_pass.prepass_pipeline, pp.transparent_pass.forward_pipeline }

ResizeCalled(r) ==
    pc[r] = "idle" /\ last'[r] # last[r] /\ last'[r].op = "resize"

\* C5: a resize() goes on to build a new pass set exactly if the sample count asked
\* for differs from that of the current render textures; otherwise it returns with
\* the pass set untouched. Pipeline objects change in no other step than the build
\* of a rebuilding resize(), which replaces every one of them by a new object
C5_RebuildIffSamples ==
    [][\A r \in Routines :
          /\ ResizeCalled(r) =>
                /\ (pc'[r] = "passes_lock") <=>
                       (render_textures[r].samples # options'[r].samples)
                /\ pc'[r] \in {"idle", "passes_lock"}
                /\ primary_passes'[r] = primary_passes[r]
                /\ render_textures'[r] = RenderTexturesNew(options'[r])
          /\ PipelinesOf(primary_passes'[r]) # PipelinesOf(primary_passes[r]) =>
                pc[r] = "passes_build"
          /\ pc[r] = "passes_build" /\ pc'[r] = "idle" =>
                PipelinesOf(primary_passes'[r]) \cap PipelinesOf(primary_passes[r]) = {}]_vars

C5_Witness ==
    /\ pc["r1"] = "idle"
    /\ last["r1"].op = "resize"
    /\ ~last["r1"].rebuilt
    /\ last["r1"].before.resolution # render_textures["r1"].resolution
    /\ builds["r1"] >= 2

\* C6: after resize(options) has been called twice in a row with the same options,
\* the render textures are what they were after the first call (resolution, sample
\* count, attachments) and the second call has not rebuilt the pass set
C6_ResizeIdempotent ==
    \A r \in Routines :
        (last[r].op = "resize" /\ last[r].repeated) =>
            /\ render_textures[r] = last[r].before
            /\ ~last[r].rebuilt
            /\ pc[r] = "idle"
            /\ builds[r] = last[r].builds

C6_Witness ==
    /\ last["r1"].op = "resize"
    /\ last["r1"].repeated
    /\ render_textures["r1"].samples = 4
    /\ render_textures["r1"].resolve
    /\ builds["r1"] >= 2

SkyboxUpdated(r) ==
    pc[r] \in {"select_culler", "cull_shadows", "global_resources", "cull",
               "draw_shadows", "begin_rpass", "prepass", "draw_skybox", "draw",
               "end_rpass", "blit", "finish"}

SkyboxDrawn(r) == pc[r] \in {"draw", "end_rpass", "blit", "finish"}

\* C7: in every frame the skybox pass holds the routine's configured background from
\* update_skybox on, and once draw_skybox has run the recording holds a skybox draw
\* exactly if a background is configured (one draw, of that texture); before it, none
C7_SkyboxIffBackground ==
    \A r \in Routines :
        LET sky == OpsOf(encoder[r], "draw_skybox")
        IN  /\ SkyboxUpdated(r) =>
                  primary_passes[r].skybox_pass.current_skybox = skybox_texture[r]
            /\ SkyboxDrawn(r) =>
                  /\ (sky # << >>) <=> (skybox_texture[r] # None)
                  /\ Len(sky) <= 1
                  /\ \A k \in 1..Len(sky) : sky[k].skybox = skybox_texture[r]
            /\ ~SkyboxDrawn(r) => sky = << >>

\* a frame without background is finished after a frame that drew one
C7_Witness ==
    /\ pc["r1"] = "finish"
    /\ skybox_texture["r1"] = None
    /\ OpsOf(encoder["r1"], "draw_skybox") = << >>
    /\ \E b \in Pushed("r1") : OpsOf(b, "draw_skybox") # << >>

\* the positions of render() from the first cull to the push
CullToFinish ==
    {"cull_shadows", "global_resources", "cull", "draw_shadows", "begin_rpass",
     "prepass", "draw_skybox", "draw", "end_rpass", "blit", "finish"}

\* the positions of render() at which all of its write guards are taken
GuardsTaken == CullToFinish \cup {"ready", "update_skybox", "select_culler"}

CullerOf(m) == IF m = "GPU" THEN "gpu_culler" ELSE "cpu_culler"

\* C9: the culler variant of a routine is the one the backend mode selected at
\* construction: the gpu_culler field keeps its tag, and every cull of every
\* recording, shadow or primary, is made with that variant
C9_OneCuller ==
    \A r \in Routines :
        /\ gpu_culler[r] = into_data(mode)
        /\ culler[r] \in {None, CullerOf(mode)}
        /\ \A b \in Recordings(r) : \A k \in 1..Len(b) :
              b[k].op = "cull" =>
                  /\ b[k].culler = CullerOf(mode)
                  /\ b[k].culled.culler = CullerOf(mode)

C9_Witness ==
    /\ mode = "GPU"
    /\ lights >= 1
    /\ pc["r1"] = "finish"
    /\ frames["r1"] >= 1
    /\ builds["r1"] >= 2
    /\ Len(OpsOf(encoder["r1"], "cull")) = lights + 3

\* C10: in every recording, a shadow draw, prepass or forward draw comes after the
\* cull, in the same recording and by the same pass, that produced the culled set
\* it consumes (the same light, the same class, the same frame)
C10_CullBeforeDraw ==
    \A r \in Routines : \A b \in Recordings(r) : \A j \in 1..Len(b) :
        b[j].op \in {"draw_shadow", "prepass", "draw"} =>
            /\ b[j].culled # NoCull
            /\ \E i \in 1..(j - 1) :
                  /\ b[i].op = "cull"
                  /\ b[i].pass = b[j].pass
                  /\ b[i].culled = b[j].culled

C10_Witness ==
    /\ pc["r1"] = "finish"
    /\ lights >= 1
    /\ Len(OpsOf(encoder["r1"], "draw_shadow")) = 2 * lights
    /\ Len(OpsOf(encoder["r1"], "draw")) = 3

\* the recordings of the routine that are complete: pushed, or about to be pushed
Complete(r) == Pushed(r) \cup (IF pc[r] = "finish" THEN {encoder[r]} ELSE {})

\* C11: in every complete recording the blit is the last command and the only blit,
\* the command before it ends the primary render pass, it writes to the output frame
\* and reads a view of the render textures, and no other command of the recording
\* reads or writes the output frame; a recording in progress holds no blit
C11_TonemapLast ==
    \A r \in Routines :
        /\ \A b \in Complete(r) :
              /\ Len(b) >= 2
              /\ b[Len(b)].op = "blit"
              /\ b[Len(b)].target = "frame"
              /\ b[Len(b)].source \in {"color", "resolve"}
              /\ b[Len(b) - 1].op = "end_rpass"
              /\ \A k \in 1..(Len(b) - 1) :
                    /\ b[k].op # "blit"
                    /\ b[k].target # "frame"
                    /\ b[k].source # "frame"
        /\ (InRender(r) /\ pc[r] # "finish") => OpsOf(encoder[r], "blit") = << >>

C11_Witness ==
    /\ pc["r1"] = "finish"
    /\ encoder["r1"][Len(encoder["r1"])].op = "blit"
    /\ encoder["r1"][Len(encoder["r1"])].source = "resolve"
    /\ OpsOf(encoder["r1"], "draw_skybox") # << >>
    /\ frames["r1"] >= 1

\* the routine is building a frame: between its first ready() call and its push
BuildingFrame(r) == pc[r] \in GuardsTaken

\* C12: no two routines that share the renderer build a frame at the same time: while
\* one is between its first ready() call and its push, the other has made no call of
\* a frame of its own that has not returned
C12_OneFrameAtATime ==
    \A r, s \in Routines :
        (r # s /\ BuildingFrame(r)) =>
            /\ ~BuildingFrame(s)
            /\ pc[s] = "lock" => trace[s] = << >>
            /\ \A m \in ManagerSet : writer[m] = r

\* one routine waits on the profiler lock while the other is drawing its second frame
C12_Witness ==
    /\ pc["r1"] = "draw"
    /\ frames["r1"] >= 1
    /\ pc["r2"] = "lock"
    /\ frames["r2"] >= 1

\* C13 as stated: the opaque and the cutout pass hold the same prepass pipeline object
C13_PrepassSharedOpaqueCutout ==
    \A r \in Routines :
        primary_passes[r].opaque_pass.prepass_pipeline =
            primary_passes[r].cutout_pass.prepass_pipeline

\* C13, amended: the prepass pipelines of a pass set come from one build; the opaque
\* one is held, as the same object, by the opaque and by the transparent pass, and the
\* cutout pass holds the cutout one
C13_PrepassSharedOpaqueTransparent ==
    \A r \in Routines :
        LET pp == primary_passes[r]
        IN  /\ pp.opaque_pass.prepass_pipeline = pp.transparent_pass.prepass_pipeline
            /\ pp.opaque_pass.prepass_pipeline.kind = "Prepass"
            /\ pp.opaque_pass.prepass_pipeline.variant = "Opaque"
            /\ pp.cutout_pass.prepass_pipeline.kind = "Prepass"
            /\ pp.cutout_pass.prepass_pipeline.variant = "Cutout"
            /\ pp.cutout_pass.prepass_pipeline.build = pp.opaque_pass.prepass_pipeline.build
            /\ pp.cutout_pass.prepass_pipeline.owner = r
            /\ pp.opaque_pass.prepass_pipeline.owner = r

\* a pass set rebuilt by resize() with four samples
C13_Witness ==
    /\ pc["r1"] = "idle"
    /\ builds["r1"] >= 2
    /\ primary_passes["r1"].opaque_pass.prepass_pipeline.build = builds["r1"]
    /\ primary_passes["r1"].transparent_pass.prepass_pipeline.samples = 4

\* the camera-view culls of a recording
CameraCulls(b) ==
    LET Is(c) == c.op = "cull" /\ c.culled.view = "camera" IN SelectSeq(b, Is)

\* every culled set produced or consumed in the recording belongs to frame k
CulledInFrame(b, k) ==
    \A i \in 1..Len(b) :
        b[i].op \in {"cull", "draw_shadow", "prepass", "draw"} => b[i].culled.frame = k

\* C14: a complete recording holds exactly three camera-view culls, one for each of
\* Opaque, Cutout and Blend; every culled set a cull, shadow draw, prepass or draw of
\* the k-th frame holds was produced in the k-th frame; a recording in progress culls
\* no class twice; the routine holds culled sets only between the culls of a frame
\* and its push, and only sets of that frame
C14_FrameScopedCulls ==
    \A r \in Routines :
        /\ \A k \in 1..(Len(encoders[r]) - initial[r]) :
              LET b == encoders[r][initial[r] + k]
              IN  /\ Len(CameraCulls(b)) = 3
                  /\ {CameraCulls(b)[i].culled.class : i \in 1..3} =
                        {"Opaque", "Cutout", "Blend"}
                  /\ CulledInFrame(b, k)
        /\ CulledInFrame(encoder[r], frames[r] + 1)
        /\ LET cam == CameraCulls(encoder[r])
           IN  /\ \A i, j \in 1..Len(cam) :
                      cam[i].culled.class = cam[j].culled.class => i = j
               /\ pc[r] \in (CullToFinish \ {"cull_shadows", "global_resources", "cull"})
                      => Len(cam) = 3
        /\ pc[r] \notin CullToFinish =>
              culled_objects[r] = << >> /\ culled_lights[r] = << >>
        /\ \A n \in DOMAIN culled_objects[r] :
              culled_objects[r][n].frame = frames[r] + 1
        /\ \A l \in DOMAIN culled_lights[r] :
              culled_lights[r][l].frame = frames[r] + 1

\* the second frame of a routine is complete, after a first one that culled as well
C14_Witness ==
    /\ pc["r1"] = "finish"
    /\ frames["r1"] = 1
    /\ lights >= 1
    /\ Len(CameraCulls(encoder["r1"])) = 3
    /\ Len(CameraCulls(encoders["r1"][initial["r1"] + 1])) = 3
    /\ Cardinality(DOMAIN culled_objects["r1"]) = 3
    /\ \A n \in DOMAIN culled_objects["r1"] : culled_objects["r1"][n].frame = 2

\* the positions of the commands of the given kinds in a recording
PositionsOf(b, ops) == {k \in 1..Len(b) : b[k].op \in ops}

\* the positions of the calls of the given names in the trace of the frame
CallsOf(r, names) == {k \in 1..Len(trace[r]) : trace[r][k].call \in names}

Before(S, T) == \A i \in S : \A j \in T : i < j

\* C15: in every recording there is at most one render pass; the shadow draws come
\* before its begin and the blit after its end; every prepass, skybox draw and forward
\* draw lies between its begin and its end; the skybox draw comes after the prepasses
\* of the opaque and of the cutout pass and before every forward draw; the calls of
\* render() are made in that order as well, whether or not a skybox is set
C15_SkyboxInsidePass ==
    \A r \in Routines :
        /\ \A b \in Recordings(r) :
              LET begin == PositionsOf(b, {"begin_rpass"})
                  end == PositionsOf(b, {"end_rpass"})
                  prepasses == PositionsOf(b, {"prepass"})
                  skybox == PositionsOf(b, {"draw_skybox"})
                  draws == PositionsOf(b, {"draw"})
                  inside == prepasses \cup skybox \cup draws
              IN  /\ Cardinality(begin) <= 1
                  /\ Cardinality(end) <= 1
                  /\ Cardinality(skybox) <= 1
                  /\ (inside \cup end) # {} => begin # {}
                  /\ Before(PositionsOf(b, {"draw_shadow"}), begin)
                  /\ Before(begin, inside)
                  /\ Before(inside, end)
                  /\ Before(begin, end)
                  /\ Before(end, PositionsOf(b, {"blit"}))
                  /\ PositionsOf(b, {"blit"}) # {} => end # {}
                  /\ Before(prepasses, skybox)
                  /\ Before(skybox, draws)
                  /\ Before(prepasses, draws)
                  /\ (skybox \cup draws) # {} =>
                        {b[k].pass : k \in prepasses} = {"opaque_pass", "cutout_pass"}
        /\ \A b \in Complete(r) :
              /\ Cardinality(PositionsOf(b, {"begin_rpass"})) = 1
              /\ Cardinality(PositionsOf(b, {"end_rpass"})) = 1
              /\ Cardinality(PositionsOf(b, {"prepass"})) = 2
              /\ Cardinality(PositionsOf(b, {"draw"})) = 3
        /\ LET skybox == CallsOf(r, {"draw_skybox"})
           IN  /\ Cardinality(skybox) <= 1
               /\ pc[r] \in {"draw", "end_rpass", "blit", "finish"} => skybox # {}
               /\ skybox # {} =>
                     {trace[r][k].arg : k \in CallsOf(r, {"prepass"})} =
                         {"opaque_pass", "cutout_pass"}
               /\ Before(CallsOf(r, {"draw_culled_shadows"}),
                         CallsOf(r, {"begin_render_pass"}))
               /\ Before(CallsOf(r, {"begin_render_pass"}), CallsOf(r, {"prepass"}))
               /\ Before(CallsOf(r, {"prepass"}), skybox)
               /\ Before(skybox, CallsOf(r, {"draw"}))
               /\ Before(CallsOf(r, {"draw"}), CallsOf(r, {"end_render_pass"}))
               /\ Before(CallsOf(r, {"end_render_pass"}), CallsOf(r, {"blit"}))

\* a complete frame with shadow draws and a drawn skybox
C15_Witness ==
    /\ pc["r1"] = "finish"
    /\ lights >= 1
    /\ PositionsOf(encoder["r1"], {"draw_shadow"}) # {}
    /\ PositionsOf(encoder["r1"], {"draw_skybox"}) # {}
    /\ Cardinality(PositionsOf(encoder["r1"], {"draw"})) = 3
    /\ PositionsOf(encoder["r1"], {"blit"}) # {}

\* the transparency classes of the camera-view culls of a recording, in order
CullClasses(b) ==
    LET c == CameraCulls(b) IN [k \in 1..Len(c) |-> c[k].culled.class]

\* the passes whose cull render() has called in the frame, in order
CullPasses(r) ==
    LET IsCull(e) == e.call = "cull"
        c == SelectSeq(trace[r], IsCull)
    IN  [k \in 1..Len(c) |-> c[k].arg]

\* C16 as stated: the camera-view culls of every recording are issued in the order
\* Opaque, Cutout, Transparent
C16_CullOrderOpaqueFirst ==
    \A r \in Routines : \A b \in Recordings(r) :
        IsPrefix(CullClasses(b), << "Opaque", "Cutout", "Blend" >>)

\* C16, amended: the camera-view culls of every recording are issued in the order
\* Transparent, Cutout, Opaque, the reverse of the order of the forward draws; a
\* complete recording holds all three, and render() calls the cull of the transparent
\* pass, then of the cutout pass, then of the opaque pass
C16_CullOrderTransparentFirst ==
    \A r \in Routines :
        /\ \A b \in Recordings(r) :
              IsPrefix(CullClasses(b), << "Blend", "Cutout", "Opaque" >>)
        /\ \A b \in Complete(r) :
              CullClasses(b) = << "Blend", "Cutout", "Opaque" >>
        /\ IsPrefix(CullPasses(r), << "transparent_pass", "cutout_pass", "opaque_pass" >>)

\* the three culls of a frame are recorded and the shadow draws are next
C16_Witness ==
    /\ pc["r1"] = "draw_shadows"
    /\ CullClasses(encoder["r1"]) = << "Blend", "Cutout", "Opaque" >>
    /\ CullPasses("r1") = << "transparent_pass", "cutout_pass", "opaque_pass" >>

\* the managers render() has made ready in the frame, in order
ReadyCalls(r) ==
    LET IsReady(e) == e.call = "ready"
        c == SelectSeq(trace[r], IsReady)
    IN  [k \in 1..Len(c) |-> c[k].arg]

\* C17: in every frame the managers are made ready in the order object, material, 2D
\* texture, cube texture, directional light, mesh, each once, and all six ready()
\* calls have returned before the skybox update, the shadow cull, the acquisition of
\* the global resources and the first camera-view cull
C17_ReadyInDependencyOrder ==
    \A r \in Routines :
        LET order == << "object_manager", "material_manager", "d2_texture_manager",
                        "d2c_texture_manager", "directional_light_manager",
                        "mesh_manager" >>
            later == CallsOf(r, {"update_skybox", "cull_shadows",
                                 "global_resources.read", "cull"})
        IN  /\ IsPrefix(ReadyCalls(r), order)
            /\ Before(CallsOf(r, {"ready"}), later)
            /\ later # {} => ReadyCalls(r) = order
            /\ pc[r] \in (GuardsTaken \ {"ready"}) => ReadyCalls(r) = order
            /\ encoder[r] # << >> => ReadyCalls(r) = order

\* the skybox update of a frame is next, after the six ready() calls
C17_Witness ==
    /\ pc["r1"] = "update_skybox"
    /\ Len(ReadyCalls("r1")) = 6
    /\ ReadyCalls("r1")[1] = "object_manager"
    /\ ReadyCalls("r1")[6] = "mesh_manager"
    /\ frames["r1"] >= 1

\* the position of materials.ready in the trace of the frame
MaterialReady(r) ==
    {k \in 1..Len(trace[r]) :
        trace[r][k].call = "ready" /\ trace[r][k].arg = "material_manager"}

\* C18 as stated: the shadow cull of a frame is issued before the global resources
\* are acquired and before the material manager is made ready
C18_ShadowCullBeforeMaterialReady ==
    \A r \in Routines :
        /\ Before(CallsOf(r, {"cull_shadows"}), CallsOf(r, {"global_resources.read"}))
        /\ Before(CallsOf(r, {"cull_shadows"}), MaterialReady(r))

\* C18, amended: the shadow cull of a frame is issued after the material manager has
\* been made ready and before the global resources (the camera) are acquired: when
\* the shadow cull is called materials.ready has returned and render() holds no guard
\* of the global resources, and when the global resources are acquired and the
\* camera-view culls are issued the shadow cull has been called
C18_ShadowCullAfterMaterialReady ==
    \A r \in Routines :
        LET shadow == CallsOf(r, {"cull_shadows"})
            camera == CallsOf(r, {"global_resources.read"})
        IN  /\ Cardinality(shadow) <= 1
            /\ Before(MaterialReady(r), shadow)
            /\ Before(shadow, camera)
            /\ Before(shadow, CallsOf(r, {"cull"}))
            /\ shadow # {} => MaterialReady(r) # {}
            /\ (camera \cup CallsOf(r, {"cull"})) # {} => shadow # {}
            /\ r \in readers["global_resources"] => shadow # {}
            /\ pc[r] = "cull_shadows" =>
                  /\ MaterialReady(r) # {}
                  /\ r \notin readers["global_resources"]
                  /\ writer["material_manager"] = r

\* the shadow cull of a frame with a light has been issued and the global resources
\* are acquired next
C18_Witness ==
    /\ pc["r1"] = "global_resources"
    /\ lights >= 1
    /\ CallsOf("r1", {"cull_shadows"}) # {}
    /\ MaterialReady("r1") = {2}
    /\ OpsOf(encoder["r1"], "cull") # << >>

\* the pipelines of a pass set that draw into the render textures
TargetPipelines(pp) ==
    { pp.skybox_pass.pipeline,
      pp.transparent_pass.prepass_pipeline, pp.transparent_pass.forward_pipeline,
      pp.cutout_pass.prepass_pipeline, pp.cutout_pass.forward_pipeline,
      pp.opaque_pass.prepass_pipeline, pp.opaque_pass.forward_pipeline }

\* new() or resize() is rebuilding the passes of the routine
InResize(r) == pc[r] \in {"passes_lock", "passes_build"}

\* C19: whenever no resize() of the routine is under way, and so throughout every
\* render(), the prepass, skybox and forward pipelines of the pass set were built with
\* the sample count of the render textures; the render textures are always the ones
\* made from the options of the latest new() or resize(); and in every recording the
\* pipelines used inside the render pass have the sample count of the targets the
\* render pass was begun on
C19_SamplesAgree ==
    \A r \in Routines :
        /\ ~InResize(r) =>
              \A p \in TargetPipelines(primary_passes[r]) :
                  p.samples = render_textures[r].samples
        /\ render_textures[r] = RenderTexturesNew(options[r])
        /\ \A b \in Recordings(r) : \A i, k \in 1..Len(b) :
              (b[i].op = "begin_rpass" /\ b[k].op \in {"prepass", "draw_skybox", "draw"})
                  => b[k].pipeline.samples = b[i].samples
        /\ \A b \in Recordings(r) :
              PositionsOf(b, {"prepass", "draw_skybox", "draw"}) # {} =>
                  PositionsOf(b, {"begin_rpass"}) # {}

\* a frame recorded with four samples after a frame recorded with one and a resize()
C19_Witness ==
    /\ pc["r1"] = "finish"
    /\ frames["r1"] = 1
    /\ builds["r1"] >= 2
    /\ render_textures["r1"].samples = 4
    /\ OpsOf(encoders["r1"][initial["r1"] + 1], "begin_rpass")[1].samples = 1
    /\ OpsOf(encoder["r1"], "begin_rpass")[1].samples = 4
    /\ OpsOf(encoder["r1"], "draw_skybox") # << >>

\* the routine is inside render() or inside the PrimaryPasses::new of a resize()
InOperation(r) == pc[r] # "idle"

\* the locks the thread of the routine holds
HeldBy(r) == {l \in Locks : writer[l] = r \/ r \in readers[l]}

\* C20: the taking of the manager locks is free of deadlock: while a render() of one
\* routine or the PrimaryPasses::new of a resize() of another routine on the same
\* renderer has not returned, one of the two threads can take its next step, and an
\* operation that has returned holds no manager lock and not the profiler lock
C20_LocksDeadlockFree ==
    /\ (\E r \in Routines : InOperation(r)) => ENABLED NextConc
    /\ \A r \in Routines : ~InOperation(r) => HeldBy(r) = {}

\* render() holds the directional light manager and waits for the material manager;
\* PrimaryPasses::new holds the material manager and waits for the directional light
\* manager
C20_Witness ==
    /\ pc["r1"] = "lock"
    /\ RenderLockOrder[idx["r1"]] = "material_manager"
    /\ "directional_light_manager" \in HeldBy("r1")
    /\ pc["r2"] = "passes_lock"
    /\ PassesLockOrder[idx["r2"]] = "directional_light_manager"
    /\ "material_manager" \in HeldBy("r2")
    /\ ~ENABLED NextConc

\* the depth pipelines of the shadow pass of a pass set
ShadowPipelines(pp) ==
    {pp.shadow_passes.cutout_pipeline, pp.shadow_passes.opaque_pipeline}

\* C21: the shadow pipelines of every pass set, the one built by new() and every one
\* rebuilt by resize(), are Shadow depth pipelines with a sample count of one, whatever
\* the sample count of the options; outside a rebuild the prepass, skybox and forward
\* pipelines have the sample count of the options of the latest new() or resize(); and
\* every shadow draw of every recording uses a pipeline with a sample count of one
C21_ShadowSamplesOne ==
    \A r \in Routines :
        /\ \A p \in ShadowPipelines(primary_passes[r]) :
              /\ p.samples = 1
              /\ p.kind = "Shadow"
              /\ p.build = builds[r]
        /\ ~InResize(r) =>
              \A p \in TargetPipelines(primary_passes[r]) :
                  /\ p.samples = options[r].samples
                  /\ p.build = builds[r]
        /\ \A b \in Recordings(r) : \A k \in 1..Len(b) :
              b[k].op = "draw_shadow" => b[k].pipeline.samples = 1

\* shadow draws recorded by passes that resize() rebuilt for four samples
C21_Witness ==
    /\ pc["r1"] = "finish"
    /\ lights >= 1
    /\ builds["r1"] >= 2
    /\ options["r1"].samples = 4
    /\ primary_passes["r1"].opaque_pass.forward_pipeline.samples = 4
    /\ primary_passes["r1"].shadow_passes.opaque_pipeline.samples = 1
    /\ OpsOf(encoder["r1"], "draw_shadow") # << >>
    /\ OpsOf(encoder["r1"], "begin_rpass")[1].samples = 4

====
